---- MODULE Spec2Model ----
(***************************************************************************)
(* Model of archive.py: a catalog of record types (catalog.meta), one      *)
(* slotted-page data file per type (<type>.dat) and the four handlers      *)
(* create type / create record / delete record / search record.            *)
(*                                                                         *)
(* Representation.                                                         *)
(*  - A text (Python str) is a sequence of Unicode code points; a byte     *)
(*    string is a sequence of numbers in 0..255.  T("ab") style literals   *)
(*    are written Txt(<<"a","b">>).                                        *)
(*  - A Python int is a record [neg, mag]: sign and the significant        *)
(*    decimal digits, so that values outside 32 bits are representable.    *)
(*  - The working directory is a function from file name (a text) to file  *)
(*    content; every open succeeds and distinct names are distinct files.  *)
(*  - A data file is a sequence of runs [page, n]: n consecutive copies    *)
(*    of the same page image.  A page image is [header, slots]: the 11     *)
(*    header bytes and the 10 slot byte strings.                           *)
(***************************************************************************)
EXTENDS Integers, Sequences, FiniteSets, TLC

----------------------------------------------------------------------------
(* Layout constants                                                        *)

NUM_SLOTS == 10

PAGE_HEADER_SIZE == 1 + NUM_SLOTS

MAX_PAGES == 1000

INT_FIELD_LEN == 4

STR_FIELD_LEN == 20

MAX_TYPE_NAME == 12

MAX_FIELD_NAME == 20

MIN_FIELDS == 1

MAX_FIELDS == 6

----------------------------------------------------------------------------
(* Texts                                                                   *)

Code ==
  [c \in {"0","1","2","3","4","5","6","7","8","9","+","-","_","|",",",".",
          " ","a","b","c","d","e","f","g","i","k","l","m","n","o","p","r",
          "s","t","x","y","z","h","S","T","U","N","R","j"} |->
     CASE c = "0" -> 48 [] c = "1" -> 49 [] c = "2" -> 50 [] c = "3" -> 51
       [] c = "4" -> 52 [] c = "5" -> 53 [] c = "6" -> 54 [] c = "7" -> 55
       [] c = "8" -> 56 [] c = "9" -> 57 [] c = "+" -> 43 [] c = "-" -> 45
       [] c = "_" -> 95 [] c = "|" -> 124 [] c = "," -> 44 [] c = "." -> 46
       [] c = " " -> 32
       [] c = "a" -> 97 [] c = "b" -> 98 [] c = "c" -> 99 [] c = "d" -> 100
       [] c = "e" -> 101 [] c = "f" -> 102 [] c = "g" -> 103
       [] c = "i" -> 105 [] c = "k" -> 107 [] c = "l" -> 108
       [] c = "m" -> 109 [] c = "n" -> 110 [] c = "o" -> 111
       [] c = "p" -> 112 [] c = "r" -> 114 [] c = "s" -> 115
       [] c = "t" -> 116 [] c = "x" -> 120 [] c = "y" -> 121
       [] c = "z" -> 122 [] c = "h" -> 104 [] c = "S" -> 83 [] c = "T" -> 84 [] c = "U" -> 85
       [] c = "N" -> 78 [] c = "R" -> 82 [] c = "j" -> 106]

Txt(cs) == [i \in 1..Len(cs) |-> Code[cs[i]]]

Rep(x, n) == [i \in 1..n |-> x]

BAR == Code["|"]

COMMA == Code[","]

IsSpace(c) == c \in {9, 10, 11, 12, 13, 32}

IsDigit(c) == c \in 48..57

RECURSIVE LStrip(_)
LStrip(s) ==
  IF s # <<>> /\ IsSpace(Head(s)) THEN LStrip(Tail(s)) ELSE s

RECURSIVE RStrip(_)
RStrip(s) ==
  IF s # <<>> /\ IsSpace(s[Len(s)]) THEN RStrip(SubSeq(s, 1, Len(s) - 1)) ELSE s

\* str.strip()
Strip(s) == RStrip(LStrip(s))

\* str.split(sep) for a one-character separator: the list of the pieces
\* between separators, empty pieces included.
RECURSIVE SplitFrom(_, _, _, _)
SplitFrom(s, sep, i, cur) ==
  IF i > Len(s) THEN <<cur>>
  ELSE IF s[i] = sep THEN <<cur>> \o SplitFrom(s, sep, i + 1, <<>>)
  ELSE SplitFrom(s, sep, i + 1, Append(cur, s[i]))

Split(s, sep) == SplitFrom(s, sep, 1, <<>>)

\* sep.join(parts)
RECURSIVE Join(_, _)
Join(parts, sep) ==
  IF parts = <<>> THEN <<>>
  ELSE IF Len(parts) = 1 THEN parts[1]
  ELSE parts[1] \o <<sep>> \o Join(Tail(parts), sep)

----------------------------------------------------------------------------
(* Python integers                                                         *)

RECURSIVE DropZeros(_)
DropZeros(ds) ==
  IF ds # <<>> /\ Head(ds) = 0 THEN DropZeros(Tail(ds)) ELSE ds

\* The literal that int() accepts, after stripping: an optional sign, then
\* decimal digits that may be separated by single underscores.  IntBody is
\* the stripped text t without its sign.
IntBody(t) == IF t # <<>> /\ t[1] \in {43, 45} THEN Tail(t) ELSE t

IsIntBody(b) ==
  /\ b # <<>>
  /\ IsDigit(b[1])
  /\ IsDigit(b[Len(b)])
  /\ \A i \in 1..Len(b) : IsDigit(b[i]) \/ b[i] = 95
  /\ \A i \in 1..(Len(b) - 1) : ~(b[i] = 95 /\ b[i + 1] = 95)

IsIntText(s) == IsIntBody(IntBody(Strip(s)))

DigitValues(digs) == [i \in 1..Len(digs) |-> digs[i] - 48]

Signed(t, mag) == [neg |-> (t[1] = 45) /\ mag # <<>>, mag |-> mag]

\* int(s) where IsIntText(s); a ValueError otherwise.
IntOf(s) ==
  Signed(Strip(s), DropZeros(DigitValues(SelectSeq(IntBody(Strip(s)), IsDigit))))

RECURSIVE NatDigits(_)
NatDigits(n) ==
  IF n = 0 THEN <<>> ELSE Append(NatDigits(n \div 10), n % 10)

\* The Python int of a natural number of the model.
PyInt(n) == [neg |-> FALSE, mag |-> NatDigits(n)]

\* str(x)
PyStr(x) ==
  IF x.mag = <<>> THEN <<48>>
  ELSE (IF x.neg THEN <<45>> ELSE <<>>) \o [i \in 1..Len(x.mag) |-> x.mag[i] + 48]

RECURSIVE MagValue(_)
MagValue(ds) ==
  IF ds = <<>> THEN 0 ELSE 10 * MagValue(SubSeq(ds, 1, Len(ds) - 1)) + ds[Len(ds)]

\* x as a number of the model, for x of at most 9 digits.
Small(x) == Len(x.mag) <= 9

Value(x) == IF x.neg THEN 0 - MagValue(x.mag) ELSE MagValue(x.mag)

InInterval(v, lo, hi) == lo <= v /\ v <= hi

\* lo <= x <= hi, for small bounds lo and hi.
Between(x, lo, hi) == Small(x) /\ InInterval(Value(x), lo, hi)

\* Lexicographic a <= b on digit strings of equal length.
RECURSIVE DigitsLeq(_, _)
DigitsLeq(a, b) ==
  IF a = <<>> THEN TRUE
  ELSE IF Head(a) # Head(b) THEN Head(a) < Head(b)
  ELSE DigitsLeq(Tail(a), Tail(b))

INT32_MAX_DIGITS == <<2, 1, 4, 7, 4, 8, 3, 6, 4, 7>>

INT32_MIN_DIGITS == <<2, 1, 4, 7, 4, 8, 3, 6, 4, 8>>

\* -2^31 <= x <= 2^31 - 1: what to_bytes(4, signed=True) can represent.
FitsInt32(x) ==
  \/ Len(x.mag) < 10
  \/ /\ Len(x.mag) = 10
     /\ DigitsLeq(x.mag, IF x.neg THEN INT32_MIN_DIGITS ELSE INT32_MAX_DIGITS)

\* The four big-endian bytes of a natural number below 2^31.
NatBytes(u) ==
  << u \div 16777216, (u \div 65536) % 256, (u \div 256) % 256, u % 256 >>

Complement(nb) == [i \in 1..4 |-> 255 - nb[i]]

\* x - 1 for a non-empty magnitude, as a number (the magnitude is <= 2^31).
RECURSIVE MagMinusOne(_)
MagMinusOne(ds) ==
  IF Len(ds) = 1 THEN ds[1] - 1
  ELSE IF ds[Len(ds)] > 0
       THEN 10 * MagValue(SubSeq(ds, 1, Len(ds) - 1)) + (ds[Len(ds)] - 1)
       ELSE 10 * MagMinusOne(SubSeq(ds, 1, Len(ds) - 1)) + 9

\* int_to_bytes(x): [ok |-> FALSE] stands for the OverflowError of to_bytes.
int_to_bytes(x) ==
  IF ~FitsInt32(x) THEN [ok |-> FALSE, bytes |-> <<>>]
  ELSE IF x.neg
       THEN [ok |-> TRUE, bytes |-> Complement(NatBytes(MagMinusOne(x.mag)))]
       ELSE [ok |-> TRUE, bytes |-> NatBytes(MagValue(x.mag))]

\* Variant: the complement without the + 1.
Negative_OnesComplement(u) == [neg |-> u # 0, mag |-> NatDigits(u)]

\* The negative number -(u + 1), for 0 <= u < 2^31.
Negative(u) ==
  [neg |-> TRUE,
   mag |-> IF u = 2147483647 THEN INT32_MIN_DIGITS ELSE NatDigits(u + 1)]

\* bytes_to_int(b): the signed value of four big-endian bytes.
bytes_to_int(b) ==
  IF b[1] >= 128
  THEN Negative(((255 - b[1]) * 16777216) + ((255 - b[2]) * 65536)
                + ((255 - b[3]) * 256) + (255 - b[4]))
  ELSE PyInt((b[1] * 16777216) + (b[2] * 65536) + (b[3] * 256) + b[4])

----------------------------------------------------------------------------
(* UTF-8                                                                   *)

\* str.encode("utf-8") of one code point.
Utf8Char(c) ==
  IF c < 128 THEN <<c>>
  ELSE IF c < 2048 THEN <<192 + (c \div 64), 128 + (c % 64)>>
  ELSE IF c < 65536
       THEN <<224 + (c \div 4096), 128 + ((c \div 64) % 64), 128 + (c % 64)>>
  ELSE <<240 + (c \div 262144), 128 + ((c \div 4096) % 64),
         128 + ((c \div 64) % 64), 128 + (c % 64)>>

RECURSIVE Utf8Encode(_)
Utf8Encode(s) ==
  IF s = <<>> THEN <<>> ELSE Utf8Char(Head(s)) \o Utf8Encode(Tail(s))

IsCont(b, i) == i <= Len(b) /\ b[i] \in 128..191

\* bytes.decode("utf-8", errors="ignore"): a byte that does not start a
\* complete well-formed sequence is dropped.
RECURSIVE Utf8DecodeFrom(_, _)
Utf8DecodeFrom(b, i) ==
  IF i > Len(b) THEN <<>>
  ELSE IF b[i] < 128 THEN <<b[i]>> \o Utf8DecodeFrom(b, i + 1)
  ELSE IF b[i] \in 194..223 /\ IsCont(b, i + 1)
       THEN <<((b[i] - 192) * 64) + (b[i + 1] - 128)>> \o Utf8DecodeFrom(b, i + 2)
  ELSE IF b[i] \in 224..239 /\ IsCont(b, i + 1) /\ IsCont(b, i + 2)
          /\ ((b[i] - 224) * 4096) + ((b[i + 1] - 128) * 64) >= 2048
       THEN <<((b[i] - 224) * 4096) + ((b[i + 1] - 128) * 64) + (b[i + 2] - 128)>>
            \o Utf8DecodeFrom(b, i + 3)
  ELSE IF b[i] \in 240..244 /\ IsCont(b, i + 1) /\ IsCont(b, i + 2) /\ IsCont(b, i + 3)
          /\ ((b[i] - 240) * 262144) + ((b[i + 1] - 128) * 4096) >= 65536
       THEN <<((b[i] - 240) * 262144) + ((b[i + 1] - 128) * 4096)
              + ((b[i + 2] - 128) * 64) + (b[i + 3] - 128)>>
            \o Utf8DecodeFrom(b, i + 4)
  ELSE Utf8DecodeFrom(b, i + 1)

Utf8Decode(b) == Utf8DecodeFrom(b, 1)

\* bytes.rstrip(b'\x00')
RECURSIVE RStripNul(_)
RStripNul(b) ==
  IF b # <<>> /\ b[Len(b)] = 0 THEN RStripNul(SubSeq(b, 1, Len(b) - 1)) ELSE b

----------------------------------------------------------------------------
(* Record codec.  A field is [fname, ftype, flen]: two texts and a Python  *)
(* int, as read_catalog returns them.                                      *)

INT == Txt(<<"i", "n", "t">>)

STR == Txt(<<"s", "t", "r">>)

RECURSIVE compute_record_size(_)
compute_record_size(fields) ==
  IF fields = <<>> THEN 1
  ELSE Value(fields[Len(fields)].flen)
       + compute_record_size(SubSeq(fields, 1, Len(fields) - 1))

\* What pack_record appends for one field: [st, bytes] with st one of "ok",
\* "ValueError" (int() rejects the text), "OverflowError" (to_bytes).
Packed(bytes) == [st |-> "ok", bytes |-> bytes]

Failed(st) == [st |-> st, bytes |-> <<>>]

IntBytes(r) == IF r.ok THEN Packed(r.bytes) ELSE Failed("OverflowError")

PackInt(val) ==
  IF ~IsIntText(val) THEN Failed("ValueError") ELSE IntBytes(int_to_bytes(IntOf(val)))

\* s[:flen] when s is longer than flen
Truncate(e, flen) == IF Len(e) > flen THEN SubSeq(e, 1, flen) ELSE e

Pad(t, flen) == t \o Rep(0, flen - Len(t))

PackStr(val, flen) == Packed(Pad(Truncate(Utf8Encode(val), flen), flen))

PackField(f, val) ==
  IF f.ftype = INT THEN PackInt(val) ELSE PackStr(val, Value(f.flen))

\* pack_record(fields, values): zip(fields, values) stops at the shorter
\* list; the first field that fails ends the call.
RECURSIVE PackFrom(_, _, _)
PackJoin(h, r) == IF r.st # "ok" THEN r ELSE Packed(h.bytes \o r.bytes)

PackNext(h, fields, values, i) ==
  IF h.st # "ok" THEN h ELSE PackJoin(h, PackFrom(fields, values, i + 1))

PackFrom(fields, values, i) ==
  IF i > Len(fields) \/ i > Len(values) THEN Packed(<<>>)
  ELSE PackNext(PackField(fields[i], values[i]), fields, values, i)

\* The validity byte 1 in front of the fields' bytes.
WithValidFlag(r) == IF r.st # "ok" THEN r ELSE Packed(<<1>> \o r.bytes)

pack_record(fields, values) == WithValidFlag(PackFrom(fields, values, 1))

UnpackField(ftype, chunk) ==
  IF ftype = INT THEN PyStr(bytes_to_int(chunk)) ELSE Utf8Decode(RStripNul(chunk))

\* unpack_record(fields, record_bytes): the list of the fields' texts.
RECURSIVE UnpackFrom(_, _, _, _)
UnpackFrom(fields, record_bytes, i, offset) ==
  IF i > Len(fields) THEN <<>>
  ELSE <<UnpackField(fields[i].ftype,
                     SubSeq(record_bytes, offset + 1, offset + Value(fields[i].flen)))>>
       \o UnpackFrom(fields, record_bytes, i + 1, offset + Value(fields[i].flen))

unpack_record(fields, record_bytes) == UnpackFrom(fields, record_bytes, 1, 1)

----------------------------------------------------------------------------
(* Catalog Manager.  The catalog file is the sequence of its lines (each   *)
(* without the line terminator).  A catalog is a function from type name   *)
(* to [num_fields, pk_index, fields].                                      *)

\* One "fname,ftype,flen" token: fld.split(",") must give three pieces and
\* int(flen_str) must succeed, else ValueError.
FieldPiecesOk(p) == Len(p) = 3 /\ IsIntText(p[3])

FieldTokenOk(fld) == FieldPiecesOk(Split(fld, COMMA))

FieldOfPieces(p) == [fname |-> p[1], ftype |-> p[2], flen |-> IntOf(p[3])]

ParseField(fld) == FieldOfPieces(Split(fld, COMMA))

\* The body of the loop of read_catalog for one line: [ok |-> FALSE] when
\* the line is skipped.
Skipped == [ok |-> FALSE]

ParseFields(parts, flds) ==
  IF \E i \in 1..Len(flds) : ~FieldTokenOk(flds[i]) THEN Skipped
  ELSE IF PyInt(Len(flds)) # IntOf(parts[2]) THEN Skipped
  ELSE [ok |-> TRUE,
        tname |-> parts[1],
        entry |-> [num_fields |-> IntOf(parts[2]),
                   pk_index   |-> IntOf(parts[3]),
                   fields     |-> [i \in 1..Len(flds) |-> ParseField(flds[i])]]]

ParseParts(parts) ==
  IF Len(parts) < 3 THEN Skipped
  ELSE IF ~IsIntText(parts[2]) \/ ~IsIntText(parts[3]) THEN Skipped
  ELSE ParseFields(parts, SubSeq(parts, 4, Len(parts)))

ParseStripped(line) == IF line = <<>> THEN Skipped ELSE ParseParts(Split(line, BAR))

ParseLine(raw) == ParseStripped(Strip(raw))

\* catalog[tname] = entry
DictPut(d, k, v) == [x \in (DOMAIN d) \cup {k} |-> IF x = k THEN v ELSE d[x]]

EmptyDict == [x \in {} |-> 0]

\* Variant: a skipped line discards what was read before it.
PutParsed_Reset(catalog, p) ==
  IF p.ok THEN DictPut(catalog, p.tname, p.entry) ELSE EmptyDict

PutParsed(catalog, p) == IF p.ok THEN DictPut(catalog, p.tname, p.entry) ELSE catalog

\* read_catalog(): later lines overwrite earlier ones of the same name.
RECURSIVE ReadLines(_, _)
ReadLines(lines, n) ==
  IF n = 0 THEN EmptyDict
  ELSE PutParsed(ReadLines(lines, n - 1), ParseLine(lines[n]))

read_catalog(lines) == ReadLines(lines, Len(lines))

\* The line write_catalog_entry appends.
FieldToken(f) == Join(<<f.fname, f.ftype, PyStr(f.flen)>>, COMMA)

CatalogLine(tname, num_fields, pk_index, fields_list) ==
  Join(<<tname, PyStr(num_fields), PyStr(pk_index)>>
       \o [i \in 1..Len(fields_list) |-> FieldToken(fields_list[i])], BAR)

write_catalog_entry(lines, tname, num_fields, pk_index, fields_list) ==
  Append(lines, CatalogLine(tname, num_fields, pk_index, fields_list))

\* f"{tname}.dat"
DAT_SUFFIX == Txt(<<".", "d", "a", "t">>)

DatName(tname) == tname \o DAT_SUFFIX

----------------------------------------------------------------------------
(* Page Store                                                              *)

\* bytearray([0] + [0]*NUM_SLOTS) followed by NUM_SLOTS zeroed slots.
ZeroPage(rec_size) ==
  [header |-> Rep(0, PAGE_HEADER_SIZE), slots |-> Rep(Rep(0, rec_size), NUM_SLOTS)]

\* Variant: the record of the appended page goes to slot 1.
NewPage_Slot1(rec_size, record_bytes) ==
  [header |-> [i \in 1..PAGE_HEADER_SIZE |-> IF i \in {1, 3} THEN 1 ELSE 0],
   slots  |-> [i \in 1..NUM_SLOTS |-> IF i = 2 THEN record_bytes ELSE Rep(0, rec_size)]]

\* The page appended when no page has room: count 1, bit 0 set, the record
\* in slot 0 and the other slots zero.
NewPage(rec_size, record_bytes) ==
  [header |-> [i \in 1..PAGE_HEADER_SIZE |-> IF i <= 2 THEN 1 ELSE 0],
   slots  |-> [i \in 1..NUM_SLOTS |-> IF i = 1 THEN record_bytes ELSE Rep(0, rec_size)]]

RECURSIVE NumPages(_)
NumPages(f) == IF f = <<>> THEN 0 ELSE f[1].n + NumPages(Tail(f))

\* The number of pages before run r.
RECURSIVE PagesBefore(_, _)
PagesBefore(f, r) == IF r <= 1 THEN 0 ELSE f[r - 1].n + PagesBefore(f, r - 1)

\* The run that holds page k (pages count from 0).
RECURSIVE RunOf(_, _, _)
RunOf(f, k, r) == IF k < f[r].n THEN r ELSE RunOf(f, k - f[r].n, r + 1)

PageAt(f, k) == f[RunOf(f, k, 1)].page

\* The file with the first page of run r replaced by page p.
WriteFirstOfRun(f, r, p) ==
  SubSeq(f, 1, r - 1)
  \o <<[page |-> p, n |-> 1]>>
  \o (IF f[r].n > 1 THEN <<[page |-> f[r].page, n |-> f[r].n - 1]>> ELSE <<>>)
  \o SubSeq(f, r + 1, Len(f))

NoSlot == 0 - 1

\* The slot loop of find_record_page_slot on one page: the first slot,
\* ascending, whose bitmap byte is 1 and whose record decodes to pk_value in
\* the key field; NoSlot if there is none.  A page whose count byte is 0 is
\* skipped without looking at its bitmap.
RECURSIVE MatchFrom(_, _, _, _, _)
MatchFrom(page, fields, pk_idx, pk_value, slot_idx) ==
  IF slot_idx >= NUM_SLOTS THEN NoSlot
  ELSE IF /\ page.header[2 + slot_idx] = 1
          /\ unpack_record(fields, page.slots[slot_idx + 1])[pk_idx + 1] = pk_value
       THEN slot_idx
       ELSE MatchFrom(page, fields, pk_idx, pk_value, slot_idx + 1)

\* Variant: the slot loop starts at slot 1.
PageMatch_SkipFirst(page, fields, pk_idx, pk_value) ==
  IF page.header[1] = 0 THEN NoSlot
  ELSE MatchFrom(page, fields, pk_idx, pk_value, 1)

PageMatch(page, fields, pk_idx, pk_value) ==
  IF page.header[1] = 0 THEN NoSlot
  ELSE MatchFrom(page, fields, pk_idx, pk_value, 0)

NotFound == [found |-> FALSE, run |-> 0, page |-> 0, slot |-> NoSlot]

\* The page loop: pages in file order; equal pages of one run give the same
\* answer, so the first page of the first run that matches is the result.
RECURSIVE ScanRuns(_, _, _, _, _)
ScanHit(m, f, fields, pk_idx, pk_value, r) ==
  IF m # NoSlot
  THEN [found |-> TRUE, run |-> r, page |-> PagesBefore(f, r), slot |-> m]
  ELSE ScanRuns(f, fields, pk_idx, pk_value, r + 1)

ScanRuns(f, fields, pk_idx, pk_value, r) ==
  IF r > Len(f) THEN NotFound
  ELSE ScanHit(PageMatch(f[r].page, fields, pk_idx, pk_value),
               f, fields, pk_idx, pk_value, r)

\* The body of find_record_page_slot once the catalog is read.
LocateIn(catalog, fs, tname, pk_value) ==
  IF tname \notin DOMAIN catalog THEN NotFound
  ELSE IF DatName(tname) \notin DOMAIN fs THEN NotFound
  ELSE ScanRuns(fs[DatName(tname)], catalog[tname].fields,
                Value(catalog[tname].pk_index) - 1, pk_value, 1)

\* find_record_page_slot(tname, pk_value) on the directory `fs` and the
\* catalog lines `lines`.
find_record_page_slot(lines, fs, tname, pk_value) ==
  LocateIn(read_catalog(lines), fs, tname, pk_value)

\* find_free_slot_in_page: NoSlot when the count byte says the page is
\* full, else the first slot whose bitmap byte is 0.
RECURSIVE FirstZero(_, _)
FirstZero(page, idx) ==
  IF idx >= NUM_SLOTS THEN NoSlot
  ELSE IF page.header[2 + idx] = 0 THEN idx
  ELSE FirstZero(page, idx + 1)

\* Variant: the highest free slot instead of the lowest.
find_free_slot_Highest(page) ==
  IF page.header[1] >= NUM_SLOTS THEN NoSlot
  ELSE IF \A i \in 0..(NUM_SLOTS - 1) : page.header[2 + i] # 0 THEN NoSlot
  ELSE CHOOSE i \in 0..(NUM_SLOTS - 1) :
         /\ page.header[2 + i] = 0
         /\ \A j \in (i + 1)..(NUM_SLOTS - 1) : page.header[2 + j] # 0

find_free_slot_in_page(page) ==
  IF page.header[1] >= NUM_SLOTS THEN NoSlot ELSE FirstZero(page, 0)

\* The first run with a page that has a free slot; 0 if none.
RECURSIVE FirstRoom(_, _)
FirstRoom(f, r) ==
  IF r > Len(f) THEN 0
  ELSE IF find_free_slot_in_page(f[r].page) # NoSlot THEN r
  ELSE FirstRoom(f, r + 1)

\* The record written into the free slot, then the header read back,
\* count incremented and the bit set.
FillSlot(page, free_slot, record_bytes) ==
  [header |-> [page.header EXCEPT ![1] = @ + 1, ![2 + free_slot] = 1],
   slots  |-> [page.slots EXCEPT ![free_slot + 1] = record_bytes]]

\* Variant: the validity byte of the record is left as it is.
ClearSlot_KeepValid(page, slot_idx) ==
  [header |-> [page.header EXCEPT ![1] = IF @ > 0 THEN @ - 1 ELSE @,
                                  ![2 + slot_idx] = 0],
   slots  |-> page.slots]

\* Variant: the whole slot is zeroed, not only its validity byte.
ClearSlot_ZeroRecord(page, slot_idx) ==
  [header |-> [page.header EXCEPT ![1] = IF @ > 0 THEN @ - 1 ELSE @,
                                  ![2 + slot_idx] = 0],
   slots  |-> [page.slots EXCEPT ![slot_idx + 1] = Rep(0, Len(@))]]

\* Variant: the count byte is not decremented.
ClearSlot_KeepCount(page, slot_idx) ==
  [header |-> [page.header EXCEPT ![2 + slot_idx] = 0],
   slots  |-> [page.slots EXCEPT ![slot_idx + 1] = [@ EXCEPT ![1] = 0]]]

\* The validity byte zeroed, then the header read back, the count
\* decremented unless it is 0 and the bit cleared.
ClearSlot(page, slot_idx) ==
  [header |-> [page.header EXCEPT ![1] = IF @ > 0 THEN @ - 1 ELSE @,
                                  ![2 + slot_idx] = 0],
   slots  |-> [page.slots EXCEPT ![slot_idx + 1] = [@ EXCEPT ![1] = 0]]]

\* Variant: num_pages > MAX_PAGES
AtPageCap_OffByOne(num_pages) == num_pages > MAX_PAGES

\* num_pages >= MAX_PAGES
AtPageCap(num_pages) == num_pages >= MAX_PAGES

----------------------------------------------------------------------------
(* CRUD Engine.  Each handler is a function of the catalog lines, the      *)
(* directory and the command's tokens; it gives the outcome (named after   *)
(* the return statement taken), the lines and directory it leaves, and     *)
(* for a search the values returned.  "OverflowError" is the one outcome   *)
(* that leaves the handler as an exception instead of a return.            *)

Result(outcome, lines, fs, values) ==
  [outcome |-> outcome, lines |-> lines, fs |-> fs, values |-> values]

\* Variant: field names of up to 21 characters pass.
FieldPairsOk_Loose(field_tokens, nf) ==
  \A i \in 0..(nf - 1) :
    /\ Len(field_tokens[2 * i + 1]) <= MAX_FIELD_NAME + 1
    /\ field_tokens[2 * i + 2] \in {INT, STR}

\* Step 7 of handle_create_type on field_tokens: every name at most 20
\* characters and every kind "int" or "str".
FieldPairsOk(field_tokens, nf) ==
  \A i \in 0..(nf - 1) :
    /\ Len(field_tokens[2 * i + 1]) <= MAX_FIELD_NAME
    /\ field_tokens[2 * i + 2] \in {INT, STR}

FieldsList(field_tokens, nf) ==
  [i \in 1..nf |->
     [fname |-> field_tokens[2 * i - 1],
      ftype |-> field_tokens[2 * i],
      flen  |-> IF field_tokens[2 * i] = INT THEN PyInt(INT_FIELD_LEN)
                ELSE PyInt(STR_FIELD_LEN)]]

\* Variant: the data file is opened for writing before the duplicate check.
CreateTypeChecked_OpenFirst(lines, fs, tname, nf, pk_index, field_tokens) ==
  IF ~Between(nf, MIN_FIELDS, MAX_FIELDS)
  THEN Result("ValidationError", lines, fs, <<>>)
  ELSE IF ~Between(pk_index, 1, Value(nf))
  THEN Result("ValidationError", lines, fs, <<>>)
  ELSE IF Len(tname) > MAX_TYPE_NAME
  THEN Result("ValidationError", lines, fs, <<>>)
  ELSE IF Len(field_tokens) # Value(nf) * 2
  THEN Result("ValidationError", lines, fs, <<>>)
  ELSE IF tname \in DOMAIN read_catalog(lines)
  THEN Result("DuplicateType", lines, DictPut(fs, DatName(tname), <<>>), <<>>)
  ELSE IF ~FieldPairsOk(field_tokens, Value(nf))
  THEN Result("ValidationError", lines, fs, <<>>)
  ELSE Result("Success",
              write_catalog_entry(lines, tname, nf, pk_index,
                                  FieldsList(field_tokens, Value(nf))),
              DictPut(fs, DatName(tname), <<>>),
              <<>>)

\* Steps 3 to 8 of handle_create_type, once int() has accepted both numbers.
CreateTypeChecked(lines, fs, tname, nf, pk_index, field_tokens) ==
  IF ~Between(nf, MIN_FIELDS, MAX_FIELDS)
  THEN Result("ValidationError", lines, fs, <<>>)
  ELSE IF ~Between(pk_index, 1, Value(nf))
  THEN Result("ValidationError", lines, fs, <<>>)
  ELSE IF Len(tname) > MAX_TYPE_NAME
  THEN Result("ValidationError", lines, fs, <<>>)
  ELSE IF Len(field_tokens) # Value(nf) * 2
  THEN Result("ValidationError", lines, fs, <<>>)
  ELSE IF tname \in DOMAIN read_catalog(lines)
  THEN Result("DuplicateType", lines, fs, <<>>)
  ELSE IF ~FieldPairsOk(field_tokens, Value(nf))
  THEN Result("ValidationError", lines, fs, <<>>)
  ELSE Result("Success",
              write_catalog_entry(lines, tname, nf, pk_index,
                                  FieldsList(field_tokens, Value(nf))),
              DictPut(fs, DatName(tname), <<>>),
              <<>>)

handle_create_type(lines, fs, tokens) ==
  IF Len(tokens) < 6 THEN Result("ValidationError", lines, fs, <<>>)
  ELSE IF ~IsIntText(tokens[4]) \/ ~IsIntText(tokens[5])
  THEN Result("ValidationError", lines, fs, <<>>)
  ELSE CreateTypeChecked(lines, fs, tokens[3], IntOf(tokens[4]), IntOf(tokens[5]),
                         SubSeq(tokens, 6, Len(tokens)))

\* The page loop of step 7 of handle_create_record on a file f1 that has at
\* least one page; r is the first run with room, 0 if there is none.
InsertAt(f1, r, rec_size, record_bytes) ==
  IF r # 0
  THEN [ok |-> TRUE,
        f  |-> WriteFirstOfRun(f1, r,
                 FillSlot(f1[r].page, find_free_slot_in_page(f1[r].page),
                          record_bytes))]
  ELSE IF AtPageCap(NumPages(f1)) THEN [ok |-> FALSE, f |-> f1]
  ELSE [ok |-> TRUE,
        f  |-> Append(f1, [page |-> NewPage(rec_size, record_bytes), n |-> 1])]

InsertIntoPages(f1, rec_size, record_bytes) ==
  InsertAt(f1, FirstRoom(f1, 1), rec_size, record_bytes)

\* Step 7 of handle_create_record on the content f of the data file: an
\* empty file first gets one zeroed page.
InsertIntoFile(f, rec_size, record_bytes) ==
  InsertIntoPages(IF f = <<>> THEN <<[page |-> ZeroPage(rec_size), n |-> 1]>> ELSE f,
                  rec_size, record_bytes)

\* The end of handle_create_record: the file is written back.
StoreRecord(ins, lines, fs, dat) ==
  Result(IF ins.ok THEN "Success" ELSE "CapacityExceeded",
         lines, DictPut(fs, dat, ins.f), <<>>)

\* Variant: the data file is opened, and an empty one gets its first page,
\* before the record is encoded.
CreateRecordPacked_OpenFirst(packed, rec_size, lines, fs, dat) ==
  IF packed.st = "ValueError"
  THEN Result("EncodeError", lines,
              DictPut(fs, dat, IF dat \in DOMAIN fs /\ fs[dat] # <<>> THEN fs[dat]
                               ELSE <<[page |-> ZeroPage(rec_size), n |-> 1]>>),
              <<>>)
  ELSE IF packed.st = "OverflowError" THEN Result("OverflowError", lines, fs, <<>>)
  ELSE StoreRecord(InsertIntoFile(IF dat \in DOMAIN fs THEN fs[dat] ELSE <<>>,
                                  rec_size, packed.bytes),
                   lines, fs, dat)

\* Steps 6 and 7 of handle_create_record on the result of pack_record.
CreateRecordPacked(packed, rec_size, lines, fs, dat) ==
  IF packed.st = "ValueError" THEN Result("EncodeError", lines, fs, <<>>)
  ELSE IF packed.st = "OverflowError" THEN Result("OverflowError", lines, fs, <<>>)
  ELSE StoreRecord(InsertIntoFile(IF dat \in DOMAIN fs THEN fs[dat] ELSE <<>>,
                                  rec_size, packed.bytes),
                   lines, fs, dat)

\* Steps 3 to 7 of handle_create_record on the schema of the type.
CreateRecordOf(schema, lines, fs, tname, value_tokens) ==
  IF PyInt(Len(value_tokens)) # schema.num_fields
  THEN Result("ValidationError", lines, fs, <<>>)
  ELSE IF find_record_page_slot(lines, fs, tname,
                                value_tokens[Value(schema.pk_index)]).found
  THEN Result("DuplicateKey", lines, fs, <<>>)
  ELSE CreateRecordPacked(pack_record(schema.fields, value_tokens),
                          compute_record_size(schema.fields),
                          lines, fs, DatName(tname))

CreateRecordIn(catalog, lines, fs, tname, value_tokens) ==
  IF tname \notin DOMAIN catalog THEN Result("SchemaNotFound", lines, fs, <<>>)
  ELSE CreateRecordOf(catalog[tname], lines, fs, tname, value_tokens)

handle_create_record(lines, fs, tokens) ==
  IF Len(tokens) < 4 THEN Result("ValidationError", lines, fs, <<>>)
  ELSE CreateRecordIn(read_catalog(lines), lines, fs, tokens[3],
                      SubSeq(tokens, 4, Len(tokens)))

\* The end of handle_delete_record on the location loc of the record.
DeleteAt(loc, lines, fs, dat) ==
  IF ~loc.found THEN Result("RecordNotFound", lines, fs, <<>>)
  ELSE Result("Success", lines,
              DictPut(fs, dat,
                      WriteFirstOfRun(fs[dat], loc.run,
                                      ClearSlot(fs[dat][loc.run].page, loc.slot))),
              <<>>)

DeleteIn(catalog, lines, fs, tname, pk_value) ==
  IF tname \notin DOMAIN catalog THEN Result("SchemaNotFound", lines, fs, <<>>)
  ELSE DeleteAt(find_record_page_slot(lines, fs, tname, pk_value),
                lines, fs, DatName(tname))

handle_delete_record(lines, fs, tokens) ==
  IF Len(tokens) # 4 THEN Result("ValidationError", lines, fs, <<>>)
  ELSE DeleteIn(read_catalog(lines), lines, fs, tokens[3], tokens[4])

\* The end of handle_search_record on the location loc of the record.
SearchAt(loc, fields, lines, fs, dat) ==
  IF ~loc.found THEN Result("RecordNotFound", lines, fs, <<>>)
  ELSE Result("Success", lines, fs,
              unpack_record(fields, fs[dat][loc.run].page.slots[loc.slot + 1]))

SearchIn(catalog, lines, fs, tname, pk_value) ==
  IF tname \notin DOMAIN catalog THEN Result("SchemaNotFound", lines, fs, <<>>)
  ELSE SearchAt(find_record_page_slot(lines, fs, tname, pk_value),
                catalog[tname].fields, lines, fs, DatName(tname))

handle_search_record(lines, fs, tokens) ==
  IF Len(tokens) # 4 THEN Result("ValidationError", lines, fs, <<>>)
  ELSE SearchIn(read_catalog(lines), lines, fs, tokens[3], tokens[4])

----------------------------------------------------------------------------
(* State                                                                   *)

VARIABLES
  catalog_meta,   \* catalog.meta: the sequence of its lines
  files,          \* the data files: file name -> sequence of runs
  last,           \* the last command executed and how its handler ended
  ops,            \* the number of commands executed
  log_len,        \* log.csv: the number of its lines
  pending         \* the insert in progress: the writes it has yet to issue

vars == <<catalog_meta, files, last, ops, log_len, pending>>

\* The number of commands of one run.
MaxOps == 4

NoCommand ==
  [op |-> "none", tokens |-> <<>>, outcome |-> "none", values |-> <<>>, logged |-> <<>>]

\* No insert is between two of its writes.
NoInsert == [tokens |-> <<>>, writes |-> <<>>]

SPACE == Code[" "]

\* The line that log_operation appends, without its timestamp.
LogLine(op_string, status) == [op_string |-> op_string, status |-> status]

\* The outcomes that are exceptions leaving the try block of main.
Exceptions == {"OverflowError", "IndexError"}

\* The log_operation call in front of the return statement that a handler
\* takes: True at the returns named Success, False at the others, and none
\* when the handler is left by an exception or no handler is called.
HandlerLog(tokens, outcome) ==
  IF outcome \in Exceptions \cup {"UnknownCommand"} THEN <<>>
  ELSE <<LogLine(Join(tokens, SPACE), outcome = "Success")>>

\* Variant: an exception is not logged.
ExceptLog_Silent(line, outcome) == <<>>

\* The except clause of main: an exception out of the try block is logged
\* as a failure of the line.
ExceptLog(line, outcome) ==
  IF outcome \in Exceptions THEN <<LogLine(line, FALSE)>> ELSE <<>>

\* The else branch of main: an unknown command is logged as a failure.
ElseLog(line, outcome) ==
  IF outcome = "UnknownCommand" THEN <<LogLine(line, FALSE)>> ELSE <<>>

\* What one command, given as the line `line`, appends to log.csv.
RunLog(line, tokens, outcome) ==
  HandlerLog(tokens, outcome) \o ElseLog(line, outcome) \o ExceptLog(line, outcome)

Finished(op, tokens, r, logged) ==
  /\ catalog_meta' = r.lines
  /\ files' = r.fs
  /\ last' = [op |-> op, tokens |-> tokens, outcome |-> r.outcome, values |-> r.values,
              logged |-> logged]
  /\ ops' = ops + 1
  /\ log_len' = log_len + Len(logged)

\* The command `tokens` ran from its line to the end of its handler.
Finish(op, tokens, r) ==
  /\ pending = NoInsert
  /\ Finished(op, tokens, r, RunLog(Join(tokens, SPACE), tokens, r.outcome))
  /\ pending' = pending

CreateType(tokens) ==
  /\ ops < MaxOps
  /\ Finish("create_type", tokens, handle_create_type(catalog_meta, files, tokens))

InsertRecord(tokens) ==
  /\ ops < MaxOps
  /\ Finish("create_record", tokens, handle_create_record(catalog_meta, files, tokens))

DeleteRecord(tokens) ==
  /\ ops < MaxOps
  /\ Finish("delete_record", tokens, handle_delete_record(catalog_meta, files, tokens))

SearchRecord(tokens) ==
  /\ ops < MaxOps
  /\ Finish("search_record", tokens, handle_search_record(catalog_meta, files, tokens))

----------------------------------------------------------------------------
(* Commands                                                                *)

CREATE == Txt(<<"c", "r", "e", "a", "t", "e">>)

DELETE == Txt(<<"d", "e", "l", "e", "t", "e">>)

SEARCH == Txt(<<"s", "e", "a", "r", "c", "h">>)

TYPE == Txt(<<"t", "y", "p", "e">>)

RECORD == Txt(<<"r", "e", "c", "o", "r", "d">>)

CreateTypeCmd(args) == <<CREATE, TYPE>> \o args

CreateRecordCmd(args) == <<CREATE, RECORD>> \o args

DeleteRecordCmd(args) == <<DELETE, RECORD>> \o args

SearchRecordCmd(args) == <<SEARCH, RECORD>> \o args

\* Type T: one Integer field, the key.  Type S: a Text key and an Integer.
T == Txt(<<"T">>)

S == Txt(<<"S">>)

U == Txt(<<"U">>)

CreateT == CreateTypeCmd(<<T, Txt(<<"1">>), Txt(<<"1">>), Txt(<<"k">>), INT>>)

CreateS ==
  CreateTypeCmd(<<S, Txt(<<"2">>), Txt(<<"1">>),
                  Txt(<<"n", "a", "m", "e">>), STR, Txt(<<"a", "g", "e">>), INT>>)

K7 == Txt(<<"7">>)

K007 == Txt(<<"0", "0", "7">>)

K9 == Txt(<<"9">>)

K09 == Txt(<<"0", "9">>)

KX == Txt(<<"x">>)

KBIG == Txt(<<"2", "1", "4", "7", "4", "8", "3", "6", "4", "8">>)

\* Text keys of exactly the field length and one byte more.
K20 == Rep(Code["a"], STR_FIELD_LEN)

K21 == Rep(Code["a"], STR_FIELD_LEN + 1)

TypeCmds == {CreateT, CreateS}

InsertCmds ==
  { CreateRecordCmd(<<T, K7>>), CreateRecordCmd(<<T, K007>>),
    CreateRecordCmd(<<T, KX>>), CreateRecordCmd(<<T, KBIG>>),
    CreateRecordCmd(<<T, K7, K7>>), CreateRecordCmd(<<U, K7>>),
    CreateRecordCmd(<<T>>),
    CreateRecordCmd(<<S, K21, K7>>), CreateRecordCmd(<<S, K20, K9>>) }

DeleteCmds ==
  { DeleteRecordCmd(<<T, K7>>), DeleteRecordCmd(<<T, K9>>),
    DeleteRecordCmd(<<S, K20>>), DeleteRecordCmd(<<U, K7>>),
    DeleteRecordCmd(<<T>>) }

SearchCmds ==
  { SearchRecordCmd(<<T, K7>>), SearchRecordCmd(<<T, K9>>),
    SearchRecordCmd(<<S, K20>>), SearchRecordCmd(<<S, K21>>),
    SearchRecordCmd(<<U, K7>>), SearchRecordCmd(<<T>>) }

----------------------------------------------------------------------------
(* Initial states.  Either nothing has run yet, or type T exists and its   *)
(* file holds P full pages: the state that "create type T 1 1 k int" and   *)
(* 10 * P times "create record T 09" leave (09 is stored as 9 and never    *)
(* equals the text 09, so every one of these inserts succeeds).            *)

RECURSIVE Repeat(_, _, _)
Repeat(lines, fs, n) ==
  IF n = 0 THEN fs
  ELSE handle_create_record(lines, Repeat(lines, fs, n - 1),
                            CreateRecordCmd(<<T, K09>>)).fs

LoadedLines == handle_create_type(<<>>, EmptyDict, CreateT).lines

\* The page that NUM_SLOTS inserts of 09 fill.
FullPage ==
  Repeat(LoadedLines, handle_create_type(<<>>, EmptyDict, CreateT).fs,
         NUM_SLOTS)[DatName(T)][1].page

PreloadPages == {1, MAX_PAGES - 1, MAX_PAGES}

InitFresh ==
  /\ catalog_meta = <<>>
  /\ files = EmptyDict

InitLoaded ==
  \E p \in PreloadPages :
    /\ catalog_meta = LoadedLines
    /\ files = DictPut(EmptyDict, DatName(T), <<[page |-> FullPage, n |-> p]>>)

Init ==
  /\ InitFresh \/ InitLoaded
  /\ last = NoCommand
  /\ ops = 0
  /\ log_len = 0
  /\ pending = NoInsert

Next ==
  \/ \E tokens \in TypeCmds : CreateType(tokens)
  \/ \E tokens \in InsertCmds : InsertRecord(tokens)
  \/ \E tokens \in DeleteCmds : DeleteRecord(tokens)
  \/ \E tokens \in SearchCmds : SearchRecord(tokens)

Spec == Init /\ [][Next]_vars

\* The same commands on a directory in which nothing has run yet.
InitEmpty ==
  /\ catalog_meta = <<>>
  /\ files = EmptyDict
  /\ last = NoCommand
  /\ ops = 0
  /\ log_len = 0
  /\ pending = NoInsert

SpecFresh == InitEmpty /\ [][Next]_vars

----------------------------------------------------------------------------
(* Vocabulary of the properties                                            *)

Slots == 0..(NUM_SLOTS - 1)

\* The content of the data file of type t in directory fs (empty if absent).
FileOf(fs, t) == IF DatName(t) \in DOMAIN fs THEN fs[DatName(t)] ELSE <<>>

\* A slot is live when its bitmap byte is set.
LiveAt(page, s) == page.header[2 + s] = 1

LiveSlots(page) == {s \in Slots : LiveAt(page, s)}

FreeSlots(page) == {s \in Slots : page.header[2 + s] = 0}

\* The decoded primary-key text of the record in slot s of a page, for the
\* catalog entry c of its type.
KeyText(c, page, s) ==
  unpack_record(c.fields, page.slots[s + 1])[Value(c.pk_index)]

\* The places <<run, slot>> of the live records, in file f of a type with
\* catalog entry c, whose decoded key is the text k.
LivePlaces(c, f, k) ==
  {p \in (1..Len(f)) \X Slots :
     LiveAt(f[p[1]].page, p[2]) /\ KeyText(c, f[p[1]].page, p[2]) = k}

\* The first of a non-empty set of places, in file order.
FirstPlace(ps) ==
  CHOOSE p \in ps : \A q \in ps : p[1] < q[1] \/ (p[1] = q[1] /\ p[2] <= q[2])

\* A create record command names a type of catalog cat and gives one value
\* per field; its primary-key text is the value at the key position.
WellFormedInsert(cat, tokens) ==
  /\ Len(tokens) >= 4
  /\ tokens[3] \in DOMAIN cat
  /\ PyInt(Len(tokens) - 3) = cat[tokens[3]].num_fields

PkOf(cat, tokens) == tokens[3 + Value(cat[tokens[3]].pk_index)]

\* The step just taken executed the command kept in last'.
Ran(op) == ops' = ops + 1 /\ last'.op = op

Search(lines, fs, t, k) == handle_search_record(lines, fs, SearchRecordCmd(<<t, k>>))

----------------------------------------------------------------------------
(* C1: in no data file do two live slots hold records that decode to the   *)
(* same primary-key text.                                                  *)
C1_PrimaryKeyUnique ==
  \A t \in DOMAIN read_catalog(catalog_meta) :
    LET f == FileOf(files, t)
        c == read_catalog(catalog_meta)[t]
    IN \A r1, r2 \in 1..Len(f) : \A s1, s2 \in Slots :
         ( /\ LiveAt(f[r1].page, s1)
           /\ LiveAt(f[r2].page, s2)
           /\ KeyText(c, f[r1].page, s1) = KeyText(c, f[r2].page, s2) )
         => (r1 = r2 /\ s1 = s2 /\ f[r1].n = 1)

(* C2: an insert whose primary-key text equals the decoded key of a live   *)
(* record of the type ends with DuplicateKey, changes neither the catalog  *)
(* nor any data file, and a search for that key afterwards succeeds with   *)
(* the values of the first live record that has this key.                  *)
C2_DuplicateKeyRejected ==
  [][ Ran("create_record") =>
      LET cat    == read_catalog(catalog_meta)
          tokens == last'.tokens
      IN WellFormedInsert(cat, tokens) =>
         LET t      == tokens[3]
             k      == PkOf(cat, tokens)
             places == LivePlaces(cat[t], FileOf(files, t), k)
         IN places # {} =>
            LET first == FirstPlace(places)
                sr    == Search(catalog_meta', files', t, k)
            IN /\ last'.outcome = "DuplicateKey"
               /\ files' = files
               /\ catalog_meta' = catalog_meta
               /\ sr.outcome = "Success"
               /\ sr.values = unpack_record(cat[t].fields,
                                FileOf(files, t)[first[1]].page.slots[first[2] + 1])
    ]_vars

\* A duplicate insert has just been rejected and its key is still found.
C2_Witness ==
  /\ last.op = "create_record"
  /\ last.outcome = "DuplicateKey"
  /\ Search(catalog_meta, files, last.tokens[3],
            PkOf(read_catalog(catalog_meta), last.tokens)).outcome = "Success"

\* Every page of file f has all its bitmap bytes set.
AllFull(f) == \A r \in 1..Len(f) : FreeSlots(f[r].page) = {}

\* The record bytes of a well-formed insert, when its values encode.
Encodes(cat, tokens) ==
  pack_record(cat[tokens[3]].fields, SubSeq(tokens, 4, Len(tokens))).st = "ok"

RecordOf(cat, tokens) ==
  pack_record(cat[tokens[3]].fields, SubSeq(tokens, 4, Len(tokens))).bytes

(* C3: no data file ever holds more than MAX_PAGES pages; and an insert    *)
(* into a file of MAX_PAGES pages whose slots are all occupied changes no  *)
(* file and, when its key is new and its values encode, ends with          *)
(* CapacityExceeded.                                                       *)
C3_CapacityCeiling ==
  /\ [](\A name \in DOMAIN files : NumPages(files[name]) <= MAX_PAGES)
  /\ [][ Ran("create_record") =>
         LET cat    == read_catalog(catalog_meta)
             tokens == last'.tokens
         IN WellFormedInsert(cat, tokens) =>
            LET t == tokens[3]
                f == FileOf(files, t)
            IN (NumPages(f) = MAX_PAGES /\ AllFull(f)) =>
               /\ files' = files
               /\ (LivePlaces(cat[t], f, PkOf(cat, tokens)) = {} /\ Encodes(cat, tokens))
                    => last'.outcome = "CapacityExceeded"
       ]_vars

\* An insert has just been refused on a file that is at the page cap.
C3_Witness ==
  /\ last.op = "create_record"
  /\ last.outcome = "CapacityExceeded"
  /\ NumPages(FileOf(files, last.tokens[3])) = MAX_PAGES
  /\ AllFull(FileOf(files, last.tokens[3]))

(* C4: in every page of every data file the count byte equals the number   *)
(* of bitmap bytes that are 1, and every bitmap byte is 0 or 1.            *)
C4_HeaderConsistent ==
  \A name \in DOMAIN files :
    \A r \in 1..Len(files[name]) :
      LET page == files[name][r].page
      IN /\ page.header[1] = Cardinality(LiveSlots(page))
         /\ \A s \in Slots : page.header[2 + s] \in {0, 1}

\* A slot whose bitmap byte is 0 but that still holds bytes of a record.
Freed(page, s) == ~LiveAt(page, s) /\ \E i \in 1..Len(page.slots[s + 1]) : page.slots[s + 1][i] # 0

\* After a successful insert a file has a second page, a freed slot and a
\* page that is neither empty nor full.
C4_Witness ==
  /\ last.op = "create_record"
  /\ last.outcome = "Success"
  /\ \E name \in DOMAIN files :
       /\ NumPages(files[name]) >= 2
       /\ \E r \in 1..Len(files[name]) : \E s \in Slots : Freed(files[name][r].page, s)
       /\ \E r \in 1..Len(files[name]) :
            Cardinality(LiveSlots(files[name][r].page)) \in 1..(NUM_SLOTS - 1)

(* C5: right after a successful delete of key k of type t, a search for k  *)
(* in t ends with RecordNotFound.                                          *)
C5_DeleteThenSearch ==
  [][ (Ran("delete_record") /\ last'.outcome = "Success")
      => Search(catalog_meta', files', last'.tokens[3], last'.tokens[4]).outcome
           = "RecordNotFound"
    ]_vars

\* The runs of f whose page has a free slot.  The pages of a run are equal,
\* so the first page of f with a free slot is the first page of the first
\* such run.
RunsWithRoom(f) == {r \in 1..Len(f) : FreeSlots(f[r].page) # {}}

Least(ks) == CHOOSE k \in ks : \A j \in ks : k <= j

\* The runs of f merged into maximal runs: two files hold the same sequence
\* of pages exactly when their merged forms are equal.
RECURSIVE Merged(_)
Merged(f) ==
  IF Len(f) <= 1 THEN f
  ELSE LET rest == Merged(Tail(f))
       IN IF rest[1].page = f[1].page
          THEN <<[page |-> f[1].page, n |-> f[1].n + rest[1].n]>> \o Tail(rest)
          ELSE <<f[1]>> \o rest

SamePages(f, g) == Merged(f) = Merged(g)

\* File f with page k (from 0) replaced by page p.
SetPage(f, k, p) ==
  LET r   == RunOf(f, k, 1)
      off == k - PagesBefore(f, r)
  IN SubSeq(f, 1, r - 1)
     \o (IF off > 0 THEN <<[page |-> f[r].page, n |-> off]>> ELSE <<>>)
     \o <<[page |-> p, n |-> 1]>>
     \o (IF f[r].n - off - 1 > 0 THEN <<[page |-> f[r].page, n |-> f[r].n - off - 1]>>
         ELSE <<>>)
     \o SubSeq(f, r + 1, Len(f))

(* C6: a successful insert into a file in which some page has a free slot  *)
(* puts the record into the lowest free slot of the first such page, sets  *)
(* that slot's bitmap byte, and changes no other slot, no other bitmap     *)
(* byte, no other page, no other file and not the number of pages.         *)
C6_FirstFit ==
  [][ (Ran("create_record") /\ last'.outcome = "Success") =>
      \A cat \in {read_catalog(catalog_meta)} :
      \A f \in {FileOf(files, last'.tokens[3])} :
      \A g \in {FileOf(files', last'.tokens[3])} :
        RunsWithRoom(f) # {} =>
          \A k \in {PagesBefore(f, Least(RunsWithRoom(f)))} :
          \A old \in {PageAt(f, k)} :
          \A new \in {PageAt(g, k)} :
          \A s \in {Least(FreeSlots(old))} :
            /\ NumPages(g) = NumPages(f)
            /\ new.slots = [old.slots EXCEPT ![s + 1] = RecordOf(cat, last'.tokens)]
            /\ \A s2 \in Slots : new.header[2 + s2] = IF s2 = s THEN 1 ELSE old.header[2 + s2]
            /\ SamePages(g, SetPage(f, k, new))
            /\ \A name \in DOMAIN files :
                 name # DatName(last'.tokens[3]) => files'[name] = files[name]
    ]_vars

\* The record just inserted sits, once, in the first page among records of
\* other bytes, although a later page has free slots: it reused a freed slot.
C6_Witness ==
  /\ last.op = "create_record"
  /\ last.outcome = "Success"
  /\ LET cat == read_catalog(catalog_meta)
         f   == FileOf(files, last.tokens[3])
         rec == RecordOf(cat, last.tokens)
     IN /\ NumPages(f) >= 2
        /\ FreeSlots(PageAt(f, 1)) # {}
        /\ \E s \in Slots : LiveAt(PageAt(f, 0), s) /\ PageAt(f, 0).slots[s + 1] = rec
        /\ \E s \in Slots : LiveAt(PageAt(f, 0), s) /\ PageAt(f, 0).slots[s + 1] # rec
        /\ \A j \in 1..(NumPages(f) - 1) : \A s \in Slots : PageAt(f, j).slots[s + 1] # rec

(* C7: a successful insert into a file whose pages are all full appends    *)
(* exactly one page, with count byte 1, only bitmap byte 0 set, the record *)
(* in slot 0 and every other slot zero; every earlier page is unchanged,   *)
(* so the first page's count stays NUM_SLOTS.                              *)
C7_PageOverflow ==
  [][ (Ran("create_record") /\ last'.outcome = "Success") =>
      LET cat    == read_catalog(catalog_meta)
          tokens == last'.tokens
          t      == tokens[3]
          f      == FileOf(files, t)
          g      == FileOf(files', t)
          n      == NumPages(f)
          rec    == RecordOf(cat, tokens)
      IN AllFull(f) =>
         /\ NumPages(g) = n + 1
         /\ PageAt(g, n).header[1] = 1
         /\ LiveSlots(PageAt(g, n)) = {0}
         /\ PageAt(g, n).slots[1] = rec
         /\ \A s \in Slots \ {0} : PageAt(g, n).slots[s + 1] = Rep(0, Len(rec))
         /\ \A j \in 0..(n - 1) : PageAt(g, j) = PageAt(f, j)
         /\ n >= 1 => PageAt(g, 0).header[1] = NUM_SLOTS
    ]_vars

\* The record just inserted is alone in a second page behind a full first page.
C7_Witness ==
  /\ last.op = "create_record"
  /\ last.outcome = "Success"
  /\ LET f == FileOf(files, last.tokens[3])
     IN /\ NumPages(f) = 2
        /\ PageAt(f, 0).header[1] = NUM_SLOTS
        /\ PageAt(f, 1).header[1] = 1
        /\ PageAt(f, 1).slots[1] = RecordOf(read_catalog(catalog_meta), last.tokens)

(* C8: a create record command on an existing type with one value per      *)
(* field ends with Success, DuplicateKey, EncodeError or CapacityExceeded. *)
C8_InsertReturnsOutcome ==
  (last.op = "create_record" /\ WellFormedInsert(read_catalog(catalog_meta), last.tokens))
  => last.outcome \in {"Success", "DuplicateKey", "EncodeError", "CapacityExceeded"}

----------------------------------------------------------------------------
(* Create type commands at the boundaries of the validation                *)

\* The number of create type commands of one run of SpecTypes.
MaxTypeOps == 3

N1 == Txt(<<"1">>)

FK == Txt(<<"k">>)

FLOAT == Txt(<<"f", "l", "o", "a", "t">>)

\* A type name with the catalog's line delimiter, one with its field
\* delimiter, and names of 12 and 13 characters.
NAME_BAR == Txt(<<"N", "|", "T">>)

NAME_COMMA == Txt(<<"N", ",", "T">>)

NAME_12 == Rep(Code["n"], MAX_TYPE_NAME)

NAME_13 == Rep(Code["n"], MAX_TYPE_NAME + 1)

\* n pairs "k int".
RECURSIVE Pairs(_)
Pairs(n) == IF n = 0 THEN <<>> ELSE <<FK, INT>> \o Pairs(n - 1)

Num(n) == PyStr(PyInt(n))

TypeBoundaryCmds ==
  { CreateTypeCmd(<<name, N1, N1, FK, INT>>) :
      name \in {T, NAME_BAR, NAME_COMMA, NAME_12, NAME_13} }
  \cup
  { CreateTypeCmd(<<T, a[1], a[2]>> \o a[3]) :
      a \in { <<Num(0), N1, <<>>>>,
              <<Num(0), Num(0), Pairs(1)>>,
              <<Num(0), N1, Pairs(1)>>,
              <<N1, Num(0), Pairs(1)>>,
              <<N1, Num(2), Pairs(1)>>,
              <<N1, N1, Pairs(2)>>,
              <<N1, N1, <<FK>>>>,
              <<Num(2), N1, Pairs(1)>>,
              <<Num(2), Num(2), Pairs(2)>>,
              <<Num(2), Num(3), Pairs(2)>>,
              <<Num(MAX_FIELDS), Num(MAX_FIELDS), Pairs(MAX_FIELDS)>>,
              <<Num(MAX_FIELDS), Num(MAX_FIELDS + 1), Pairs(MAX_FIELDS)>>,
              <<Num(MAX_FIELDS + 1), N1, Pairs(MAX_FIELDS + 1)>>,
              <<Txt(<<"0", "1">>), N1, Pairs(1)>>,
              <<KX, N1, Pairs(1)>>,
              <<N1, KX, Pairs(1)>>,
              <<N1, N1, <<FK, FLOAT>>>>,
              <<N1, N1, <<Rep(Code["f"], MAX_FIELD_NAME), STR>>>>,
              <<N1, N1, <<Rep(Code["f"], MAX_FIELD_NAME + 1), STR>>>> } }

NextTypes ==
  /\ ops < MaxTypeOps
  /\ \E tokens \in TypeBoundaryCmds : CreateType(tokens)

SpecTypes == InitEmpty /\ [][NextTypes]_vars

\* A line of the catalog file is an entry for name when it is name, the
\* delimiter, and then what write_catalog_entry writes after a name: a
\* count, a key position and that many fields.
EntryFor(line, name) ==
  /\ Len(line) > Len(name)
  /\ SubSeq(line, 1, Len(name)) = name
  /\ line[Len(name) + 1] = BAR
  /\ ParseLine(<<Code["x"]>> \o SubSeq(line, Len(name) + 1, Len(line))).ok

EntriesFor(lines, name) == {i \in 1..Len(lines) : EntryFor(lines[i], name)}

TypeNames == {cmd[3] : cmd \in TypeBoundaryCmds \cup TypeCmds}

(* C9: the catalog file never holds two entries for one type name: a       *)
(* create type whose name was created before is refused and appends        *)
(* nothing.                                                                *)
C9_OneEntryPerName ==
  \A name \in TypeNames : Cardinality(EntriesFor(catalog_meta, name)) <= 1

\* What the claim requires of a create type command, given the catalog
\* loaded when it runs.
Acceptable(cat, tokens) ==
  /\ Len(tokens) >= 5
  /\ IsIntText(tokens[4])
  /\ IsIntText(tokens[5])
  /\ \E fieldCount \in MIN_FIELDS..MAX_FIELDS :
       /\ IntOf(tokens[4]) = PyInt(fieldCount)
       /\ \E pkIndex \in 1..fieldCount : IntOf(tokens[5]) = PyInt(pkIndex)
       /\ Len(tokens) - 5 = 2 * fieldCount
       /\ \A i \in 1..fieldCount :
            /\ Len(tokens[5 + 2 * i - 1]) <= MAX_FIELD_NAME
            /\ tokens[5 + 2 * i] \in {INT, STR}
  /\ Len(tokens[3]) <= MAX_TYPE_NAME
  /\ tokens[3] \notin DOMAIN cat

----------------------------------------------------------------------------
(* The record codec on its own: pack_record followed by unpack_record on   *)
(* the schemas of three created types.                                     *)

R == Txt(<<"R">>)

\* Type R: an Integer, a Text key and an Integer.
CreateR ==
  CreateTypeCmd(<<R, Txt(<<"3">>), Txt(<<"2">>),
                  Txt(<<"a">>), INT, Txt(<<"b">>), STR, Txt(<<"c">>), INT>>)

\* The catalog lines and directory after a sequence of create type commands.
RECURSIVE Created(_)
CreatedNext(before, tokens) == handle_create_type(before.lines, before.fs, tokens)

Created(cmds) ==
  IF cmds = <<>> THEN Result("none", <<>>, EmptyDict, <<>>)
  ELSE CreatedNext(Created(SubSeq(cmds, 1, Len(cmds) - 1)), cmds[Len(cmds)])

\* Integer texts: plain, re-rendered, signed, with an underscore, at both
\* ends of the 32-bit range, one beyond each end, and not integers.
IntTexts ==
  { K7, K007, Txt(<<"-", "7">>), Txt(<<"+", "7">>), Txt(<<"-", "0">>),
    Txt(<<"1", "_", "0">>), Txt(<<"-", "2", "5", "6">>),
    Txt(<<"2", "1", "4", "7", "4", "8", "3", "6", "4", "7">>),
    Txt(<<"-", "2", "1", "4", "7", "4", "8", "3", "6", "4", "8">>),
    KBIG, Txt(<<"-", "2", "1", "4", "7", "4", "8", "3", "6", "4", "9">>),
    KX, Txt(<<"7", "_">>) }

\* Texts: empty, short, of 20 and 21 bytes, ending in a NUL character, and
\* with a character of 2, 3 or 4 bytes across the 20-byte cut.
StrTexts ==
  { <<>>, Txt(<<"a">>), <<97, 0>>, K20, K21,
    Rep(97, 19) \o <<0>>, Rep(97, 20) \o <<0>>,
    Rep(97, 19) \o <<233>>, Rep(97, 18) \o <<233>>,
    Rep(97, 18) \o <<8364>>, Rep(97, 17) \o <<128512>>,
    Rep(97, 18) \o <<0, 233>> }

\* One value per field of T, S and R, and lists that are too short or too long.
CodecInputs ==
  { <<T, <<v>>>> : v \in IntTexts }
  \cup { <<S, <<v, K7>>>> : v \in StrTexts }
  \cup { <<S, <<K20, v>>>> : v \in IntTexts }
  \cup { <<R, <<v[1], v[2], K007>>>> :
           v \in {Txt(<<"-", "7">>), K7} \X StrTexts }
  \cup { <<T, <<>>>>, <<T, <<K7, K7>>>>, <<S, <<K20>>>> }

\* unpack_record applied to what pack_record returned, when it returned.
Decoded(packed, fields) ==
  [outcome |-> packed.st,
   bytes   |-> packed.bytes,
   values  |-> IF packed.st = "ok" /\ Len(packed.bytes) = compute_record_size(fields)
               THEN unpack_record(fields, packed.bytes) ELSE <<>>]

Recode(fields, values) == Decoded(pack_record(fields, values), fields)

\* The round trip of one value list; nothing is written.
Recoded(tname, values, r) ==
  /\ last' = [op |-> "codec", tokens |-> <<tname>> \o values,
              outcome |-> r.outcome, values |-> r.values, logged |-> <<>>]
  /\ ops' = ops + 1
  /\ UNCHANGED <<catalog_meta, files, log_len, pending>>

RoundTrip(tname, values) ==
  /\ ops < MaxOps
  /\ Recoded(tname, values, Recode(read_catalog(catalog_meta)[tname].fields, values))

InitCodec ==
  /\ catalog_meta = Created(<<CreateT, CreateS, CreateR>>).lines
  /\ files = Created(<<CreateT, CreateS, CreateR>>).fs
  /\ last = NoCommand
  /\ ops = 0
  /\ log_len = 0
  /\ pending = NoInsert

NextCodec == \E input \in CodecInputs : RoundTrip(input[1], input[2])

SpecCodec == InitCodec /\ [][NextCodec]_vars

\* The schema and the value list of the round trip kept in last.
CodecFields == read_catalog(catalog_meta)[last.tokens[1]].fields

CodecValues == Tail(last.tokens)

CodecRan == last.op = "codec" /\ last.outcome = "ok"

\* The record has the validity byte 1 and the length 1 + sum of the field
\* lengths.
RecordShape(fields, values) ==
  /\ Len(pack_record(fields, values).bytes) = compute_record_size(fields)
  /\ pack_record(fields, values).bytes[1] = 1

RECURSIVE Utf8Len(_)
Utf8Len(s) == IF s = <<>> THEN 0 ELSE Len(Utf8Char(Head(s))) + Utf8Len(Tail(s))

\* The longest prefix of whole characters of s that encodes in n bytes.
RECURSIVE WholePrefix(_, _)
WholePrefix(s, n) ==
  IF s = <<>> \/ Len(Utf8Char(Head(s))) > n THEN <<>>
  ELSE <<Head(s)>> \o WholePrefix(Tail(s), n - Len(Utf8Char(Head(s))))

RECURSIVE StripNulChars(_)
StripNulChars(s) ==
  IF s # <<>> /\ s[Len(s)] = 0 THEN StripNulChars(SubSeq(s, 1, Len(s) - 1)) ELSE s

\* What a Text value of a field of n bytes reads back as: its whole
\* characters that fit in n bytes, without trailing NUL characters unless
\* the cut left bytes of a split character behind them.
NormText(s, n) ==
  IF Utf8Len(s) > n /\ Utf8Len(WholePrefix(s, n)) < n THEN WholePrefix(s, n)
  ELSE StripNulChars(WholePrefix(s, n))

----------------------------------------------------------------------------
(* read_catalog on its own: catalog.meta holds any lines when the program  *)
(* starts (main creates the file only when it is missing).                 *)

\* The number of lines of catalog.meta.
MaxLines == 3

LineOf(pieces) == Join(pieces, BAR)

F_K_INT == Txt(<<"k", ",", "i", "n", "t", ",", "4">>)

F_J_STR == Txt(<<"j", ",", "s", "t", "r", ",", "2", "0">>)

\* Well-formed lines: T, T again with another field, S with two fields, and
\* T with blanks around the line and the numbers.
GoodLines ==
  { LineOf(<<T, N1, N1, F_K_INT>>),
    LineOf(<<T, N1, N1, F_J_STR>>),
    LineOf(<<S, Num(2), Num(2), F_J_STR, F_K_INT>>),
    <<32>> \o LineOf(<<T, <<32, 49>>, <<49, 32>>, Txt(<<"k", ",", "i", "n", "t", ",", " ", "4">>)>>)
          \o <<32>> }

\* Malformed lines, all naming T: blank, too few pieces, a count, a key
\* position and a length that are not integers, a field of two pieces and
\* of four, and a count that differs from the number of fields.
BadLines ==
  { <<32>>,
    LineOf(<<T, N1>>),
    LineOf(<<T, KX, N1, F_K_INT>>),
    LineOf(<<T, N1, KX, F_K_INT>>),
    LineOf(<<T, N1, N1, Txt(<<"k", ",", "i", "n", "t", ",", "x">>)>>),
    LineOf(<<T, N1, N1, Txt(<<"k", ",", "i", "n", "t">>)>>),
    LineOf(<<T, N1, N1, F_K_INT \o Txt(<<",", "4">>)>>),
    LineOf(<<T, Num(2), N1, F_K_INT>>) }

RECURSIVE LineSeqs(_)
LineSeqs(n) ==
  IF n = 0 THEN {<<>>}
  ELSE LineSeqs(n - 1)
       \cup {Append(ls, l) : ls \in {x \in LineSeqs(n - 1) : Len(x) = n - 1},
                             l \in GoodLines \cup BadLines}

InitCatalog ==
  /\ catalog_meta \in LineSeqs(MaxLines)
  /\ files = EmptyDict
  /\ last = NoCommand
  /\ ops = 0
  /\ log_len = 0
  /\ pending = NoInsert

\* One call of read_catalog; last.values keeps the catalog it returned.
LoadCatalog ==
  /\ last' = [op |-> "read_catalog", tokens |-> <<>>, outcome |-> "ok",
              values |-> read_catalog(catalog_meta), logged |-> <<>>]
  /\ UNCHANGED <<catalog_meta, files, ops, log_len, pending>>

SpecCatalog == InitCatalog /\ [][LoadCatalog]_vars

\* The pieces of a line between the delimiters, as the spec's entry format
\* names them.
Pieces(line) == Split(Strip(line), BAR)

FieldPieces(line, i) == Split(Pieces(line)[3 + i], COMMA)

\* A well-formed line: a name, an integer count, an integer key position
\* and exactly count fields, each of a name, a kind and an integer length.
WellFormedLine(line) ==
  /\ Strip(line) # <<>>
  /\ Len(Pieces(line)) >= 3
  /\ IsIntText(Pieces(line)[2])
  /\ IsIntText(Pieces(line)[3])
  /\ PyInt(Len(Pieces(line)) - 3) = IntOf(Pieces(line)[2])
  /\ \A i \in 1..(Len(Pieces(line)) - 3) :
       Len(FieldPieces(line, i)) = 3 /\ IsIntText(FieldPieces(line, i)[3])

EntryName(line) == Pieces(line)[1]

EntryOfLine(line) ==
  [num_fields |-> IntOf(Pieces(line)[2]),
   pk_index   |-> IntOf(Pieces(line)[3]),
   fields     |-> [i \in 1..(Len(Pieces(line)) - 3) |->
                     [fname |-> FieldPieces(line, i)[1],
                      ftype |-> FieldPieces(line, i)[2],
                      flen  |-> IntOf(FieldPieces(line, i)[3])]]]

\* The positions of the well-formed lines that name a type.
GoodAt(lines, name) ==
  {i \in 1..Len(lines) : WellFormedLine(lines[i]) /\ EntryName(lines[i]) = name}

Greatest(ks) == CHOOSE k \in ks : \A j \in ks : j <= k

(* C12: the catalog that read_catalog returns holds exactly the names of   *)
(* the well-formed lines, each with the entry of the last well-formed line *)
(* of that name, whatever malformed lines stand before, between or after   *)
(* them; it is the catalog of the file without its malformed lines.        *)
C12_LenientLoad ==
  last.op = "read_catalog" =>
    /\ DOMAIN last.values
         = {EntryName(catalog_meta[i]) :
              i \in {j \in 1..Len(catalog_meta) : WellFormedLine(catalog_meta[j])}}
    /\ \A name \in DOMAIN last.values :
         last.values[name]
           = EntryOfLine(catalog_meta[Greatest(GoodAt(catalog_meta, name))])
    /\ last.values = read_catalog(SelectSeq(catalog_meta, WellFormedLine))

\* A load of a file in which the well-formed entry of T stands between two
\* malformed lines that name T, next to a well-formed entry of S.
C12_Witness ==
  /\ last.op = "read_catalog"
  /\ Len(catalog_meta) = 3
  /\ ~WellFormedLine(catalog_meta[1])
  /\ catalog_meta[2] = LineOf(<<T, N1, N1, F_K_INT>>)
  /\ catalog_meta[3] = LineOf(<<T, KX, N1, F_K_INT>>)
  /\ DOMAIN last.values = {T}
  /\ last.values[T].fields = <<[fname |-> FK, ftype |-> INT, flen |-> PyInt(INT_FIELD_LEN)]>>

----------------------------------------------------------------------------
\* The values of an insert as they read back: integers re-rendered, texts
\* cut to the field.
Normalised(fields, values) ==
  [i \in 1..Len(values) |->
     IF fields[i].ftype = INT THEN PyStr(IntOf(values[i]))
     ELSE NormText(values[i], Value(fields[i].flen))]

(* C13: right after a successful insert (so before any delete), a search   *)
(* of the same type for the primary-key text given to the insert succeeds  *)
(* and returns the normalised values of the insert.                        *)
C13_InsertThenSearch ==
  [][ (Ran("create_record") /\ last'.outcome = "Success") =>
      \A cat \in {read_catalog(catalog_meta)} :
      \A sr \in {Search(catalog_meta', files', last'.tokens[3], PkOf(cat, last'.tokens))} :
        /\ sr.outcome = "Success"
        /\ sr.values = Normalised(cat[last'.tokens[3]].fields,
                                  SubSeq(last'.tokens, 4, Len(last'.tokens)))
    ]_vars

----------------------------------------------------------------------------
\* The schema that a create type command declares.
DeclaredFields(tokens) ==
  [i \in 1..((Len(tokens) - 5) \div 2) |->
     [fname |-> tokens[4 + 2 * i],
      ftype |-> tokens[5 + 2 * i],
      flen  |-> IF tokens[5 + 2 * i] = INT THEN PyInt(INT_FIELD_LEN)
                ELSE PyInt(STR_FIELD_LEN)]]

(* C14: the catalog loaded after a successful create type holds the name   *)
(* with exactly the declared field list and key position, and an insert,   *)
(* a delete and a search on that name do not end with SchemaNotFound.      *)
C14_CreatedTypeUsable ==
  [][ (Ran("create_type") /\ last'.outcome = "Success") =>
      \A cat \in {read_catalog(catalog_meta')} :
      \A name \in {last'.tokens[3]} :
        /\ name \in DOMAIN cat
        /\ cat[name].fields = DeclaredFields(last'.tokens)
        /\ cat[name].pk_index = IntOf(last'.tokens[5])
        /\ handle_create_record(catalog_meta', files',
                                CreateRecordCmd(<<name, K7>>)).outcome # "SchemaNotFound"
        /\ handle_delete_record(catalog_meta', files',
                                DeleteRecordCmd(<<name, K7>>)).outcome # "SchemaNotFound"
        /\ handle_search_record(catalog_meta', files',
                                SearchRecordCmd(<<name, K7>>)).outcome # "SchemaNotFound"
    ]_vars

----------------------------------------------------------------------------
(* The insert write by write.  Step 7 of handle_create_record issues its   *)
(* f.write calls one after the other: two for the first page of an empty   *)
(* file, then the record and the header of the page with room, or the      *)
(* header and the content of an appended page.  A page whose slots are not *)
(* yet in the file has slots = <<>>.                                       *)

FileWrite(kind, run, slot, bytes) ==
  [kind |-> kind, run |-> run, slot |-> slot, bytes |-> bytes]

\* f.write(empty_header); f.write(zeros) on an empty file.
EmptyFileWrites(f, rec_size) ==
  IF f # <<>> THEN <<>>
  ELSE << FileWrite("empty_header", 1, 0, ZeroPage(rec_size).header),
          FileWrite("empty_slots", 1, 0, ZeroPage(rec_size).slots) >>

\* Variant: the header is written before the record.
SlotWrites_HeaderFirst(r, free_slot, record_bytes) ==
  << FileWrite("header", r, free_slot, <<>>),
     FileWrite("record", r, free_slot, record_bytes) >>

\* f.write(record_bytes) at the slot, then f.write(header) at the page.
SlotWrites(r, free_slot, record_bytes) ==
  << FileWrite("record", r, free_slot, record_bytes),
     FileWrite("header", r, free_slot, <<>>) >>

\* f.write(new_header), then f.write(page_content) at the end of the file.
AppendWrites(rec_size, record_bytes) ==
  << FileWrite("new_header", 0, 0, NewPage(rec_size, record_bytes).header),
     FileWrite("page_content", 0, 0, NewPage(rec_size, record_bytes).slots) >>

PageWrites(f1, r, rec_size, record_bytes) ==
  IF r # 0 THEN SlotWrites(r, find_free_slot_in_page(f1[r].page), record_bytes)
  ELSE IF AtPageCap(NumPages(f1)) THEN <<>>
  ELSE AppendWrites(rec_size, record_bytes)

ScanWrites(f1, rec_size, record_bytes) ==
  PageWrites(f1, FirstRoom(f1, 1), rec_size, record_bytes)

\* The writes of step 7 on a file of content f, in the order of the code.
InsertWrites(f, rec_size, record_bytes) ==
  EmptyFileWrites(f, rec_size)
  \o ScanWrites(IF f = <<>> THEN <<[page |-> ZeroPage(rec_size), n |-> 1]>> ELSE f,
                rec_size, record_bytes)

\* The header read back, count incremented and the bit set.
Marked(header, free_slot) == [header EXCEPT ![1] = @ + 1, ![2 + free_slot] = 1]

\* The content of the file after one write.
ApplyWrite(f, w) ==
  CASE w.kind = "empty_header" ->
         <<[page |-> [header |-> w.bytes, slots |-> <<>>], n |-> 1]>>
    [] w.kind = "empty_slots" ->
         <<[page |-> [header |-> f[1].page.header, slots |-> w.bytes], n |-> 1]>>
    [] w.kind = "record" ->
         WriteFirstOfRun(f, w.run,
           [header |-> f[w.run].page.header,
            slots  |-> [f[w.run].page.slots EXCEPT ![w.slot + 1] = w.bytes]])
    [] w.kind = "header" ->
         WriteFirstOfRun(f, w.run,
           [header |-> Marked(f[w.run].page.header, w.slot),
            slots  |-> f[w.run].page.slots])
    [] w.kind = "new_header" ->
         Append(f, [page |-> [header |-> w.bytes, slots |-> <<>>], n |-> 1])
    [] w.kind = "page_content" ->
         [f EXCEPT ![Len(f)] = [page |-> [header |-> f[Len(f)].page.header,
                                          slots  |-> w.bytes],
                                n    |-> 1]]

\* The handler up to step 7: a command that does not reach its writes ends
\* as in handle_create_record; one that does has its writes pending.
Begun(tokens, r, cat) ==
  IF r.outcome # "Success"
  THEN /\ Finished("create_record", tokens, r,
                   RunLog(Join(tokens, SPACE), tokens, r.outcome))
       /\ pending' = pending
  ELSE /\ pending' = [tokens |-> tokens,
                      writes |-> InsertWrites(FileOf(files, tokens[3]),
                                              compute_record_size(cat[tokens[3]].fields),
                                              RecordOf(cat, tokens))]
       /\ last' = [op |-> "create_record", tokens |-> tokens, outcome |-> "writing",
                   values |-> <<>>, logged |-> <<>>]
       /\ UNCHANGED <<catalog_meta, files, ops, log_len>>

BeginInsert(tokens) ==
  /\ ops < MaxOps
  /\ pending = NoInsert
  /\ Begun(tokens, handle_create_record(catalog_meta, files, tokens),
           read_catalog(catalog_meta))

\* The next f.write of the insert in progress.
WriteNext ==
  /\ pending # NoInsert
  /\ pending.writes # <<>>
  /\ files' = DictPut(files, DatName(pending.tokens[3]),
                      ApplyWrite(FileOf(files, pending.tokens[3]), Head(pending.writes)))
  /\ pending' = [pending EXCEPT !.writes = Tail(@)]
  /\ UNCHANGED <<catalog_meta, last, ops, log_len>>

\* log_operation(op_string, True); return True
EndInsert ==
  /\ pending # NoInsert
  /\ pending.writes = <<>>
  /\ last' = [op |-> "create_record", tokens |-> pending.tokens, outcome |-> "Success",
              values |-> <<>>,
              logged |-> <<LogLine(Join(pending.tokens, SPACE), TRUE)>>]
  /\ ops' = ops + 1
  /\ log_len' = log_len + 1
  /\ pending' = NoInsert
  /\ UNCHANGED <<catalog_meta, files>>

NextWrites ==
  \/ \E tokens \in TypeCmds : CreateType(tokens)
  \/ \E tokens \in InsertCmds : BeginInsert(tokens)
  \/ WriteNext
  \/ EndInsert
  \/ \E tokens \in DeleteCmds : DeleteRecord(tokens)

SpecWrites == Init /\ [][NextWrites]_vars

\* Slot s of the page is in the file and holds a written record.
RecordWritten(page, s) == page.slots # <<>> /\ page.slots[s + 1][1] = 1

\* The page is the header of a page being appended: count 1, bit 0 set,
\* and its slots are the one write still to come.
AppendedHeader(name, r) ==
  /\ name = DatName(pending.tokens[3])
  /\ r = Len(files[name])
  /\ files[name][r].page.slots = <<>>
  /\ files[name][r].page.header[1] = 1
  /\ LiveSlots(files[name][r].page) = {0}
  /\ Len(pending.writes) = 1
  /\ pending.writes[1].kind = "page_content"
  /\ pending.writes[1].bytes[1] = RecordOf(read_catalog(catalog_meta), pending.tokens)

(* C15 as stated: between any two writes of an insert, every slot whose    *)
(* bitmap byte is set in a page header of a file holds a written record.   *)
C15_RecordBeforeBit ==
  pending # NoInsert =>
    \A name \in DOMAIN files : \A r \in 1..Len(files[name]) :
      \A s \in LiveSlots(files[name][r].page) : RecordWritten(files[name][r].page, s)

(* C15 amended: between any two writes of an insert, every slot whose      *)
(* bitmap byte is set holds a written record, except slot 0 of a page that *)
(* is being appended: its header, with count 1 and bit 0 set, is written   *)
(* before its slots, and the one write still to come puts the record into  *)
(* slot 0.                                                                 *)
C15_WriteOrdering ==
  pending # NoInsert =>
    \A name \in DOMAIN files : \A r \in 1..Len(files[name]) :
      \/ \A s \in LiveSlots(files[name][r].page) : RecordWritten(files[name][r].page, s)
      \/ AppendedHeader(name, r)

\* Between the two writes of an insert into a freed slot of a page behind
\* which the file has another page: the record is in the slot and the
\* slot's bit is still 0.
C15_Witness ==
  /\ pending # NoInsert
  /\ Len(pending.writes) = 1
  /\ pending.writes[1].kind = "header"
  /\ \A f \in {FileOf(files, pending.tokens[3])} :
       /\ NumPages(f) >= 2
       /\ ~LiveAt(f[pending.writes[1].run].page, pending.writes[1].slot)
       /\ f[pending.writes[1].run].page.slots[pending.writes[1].slot + 1]
            = RecordOf(read_catalog(catalog_meta), pending.tokens)

----------------------------------------------------------------------------
\* The decoded keys of the live records of file f, for catalog entry c.
LiveKeys(c, f) ==
  {KeyText(c, f[p[1]].page, p[2]) :
     p \in {q \in (1..Len(f)) \X Slots : LiveAt(f[q[1]].page, q[2])}}

(* C16: a successful delete of key pk of type t changes, in the first page *)
(* and slot whose live record decodes to pk, the validity byte (to 0), the *)
(* count byte (one less) and the slot's bitmap byte (to 0), and nothing    *)
(* else: the slot's field bytes, the other slots and bitmap bytes, the     *)
(* other pages, the number of pages, the other files and the catalog stay, *)
(* and a search for any key that was found in another slot gives the same  *)
(* values as before.                                                       *)
C16_DeleteFrame ==
  [][ (Ran("delete_record") /\ last'.outcome = "Success") =>
      \A t \in {last'.tokens[3]} :
      \A c \in {read_catalog(catalog_meta)[last'.tokens[3]]} :
      \A f \in {FileOf(files, last'.tokens[3])} :
      \A g \in {FileOf(files', last'.tokens[3])} :
      \A place \in {FirstPlace(LivePlaces(c, f, last'.tokens[4]))} :
      \A k \in {PagesBefore(f, place[1])} :
      \A old \in {PageAt(f, k)} :
      \A new \in {PageAt(g, k)} :
        /\ catalog_meta' = catalog_meta
        /\ \A name \in DOMAIN files' :
             name # DatName(t) => (name \in DOMAIN files /\ files'[name] = files[name])
        /\ DOMAIN files' = DOMAIN files
        /\ NumPages(g) = NumPages(f)
        /\ SamePages(g, SetPage(f, k, new))
        /\ new.header[1] = old.header[1] - 1
        /\ new.header[1] >= 0
        /\ \A s \in Slots :
             new.header[2 + s] = IF s = place[2] THEN 0 ELSE old.header[2 + s]
        /\ \A s \in Slots \ {place[2]} : new.slots[s + 1] = old.slots[s + 1]
        /\ new.slots[place[2] + 1] = [old.slots[place[2] + 1] EXCEPT ![1] = 0]
        /\ \A key \in LiveKeys(c, f) \ {last'.tokens[4]} :
             /\ Search(catalog_meta, files, t, key).outcome = "Success"
             /\ Search(catalog_meta', files', t, key).outcome = "Success"
             /\ Search(catalog_meta', files', t, key).values
                  = Search(catalog_meta, files, t, key).values
    ]_vars

\* A record was just deleted from a page that keeps other live records in a
\* file of several pages; the slot keeps its field bytes.
C16_Witness ==
  /\ last.op = "delete_record"
  /\ last.outcome = "Success"
  /\ \A f \in {FileOf(files, last.tokens[3])} :
       /\ NumPages(f) >= 2
       /\ \E s \in Slots :
            /\ Freed(PageAt(f, 0), s)
            /\ PageAt(f, 0).slots[s + 1][1] = 0
       /\ LiveSlots(PageAt(f, 0)) # {}
       /\ Cardinality(LiveKeys(read_catalog(catalog_meta)[last.tokens[3]], f)) >= 2

----------------------------------------------------------------------------
\* A create record command that names no type of the catalog, gives a
\* wrong number of values, or gives an Integer field a text that is not an
\* integer.
FailsInsertCheck(cat, tokens) ==
  \/ ~WellFormedInsert(cat, tokens)
  \/ \E i \in 1..Len(cat[tokens[3]].fields) :
       cat[tokens[3]].fields[i].ftype = INT /\ ~IsIntText(tokens[3 + i])

(* C17: an insert that names an unknown type, gives a wrong number of      *)
(* values or gives an Integer field a non-integer text does not succeed    *)
(* and leaves the catalog and the directory of data files as they were: no *)
(* file is created and an empty file stays empty.                          *)
C17_FailedInsertNoEffect ==
  [][ Ran("create_record") =>
      \A cat \in {read_catalog(catalog_meta)} :
        FailsInsertCheck(cat, last'.tokens) =>
          /\ last'.outcome \in {"ValidationError", "SchemaNotFound", "EncodeError",
                                "DuplicateKey"}
          /\ files' = files
          /\ catalog_meta' = catalog_meta
    ]_vars

\* An insert with a non-integer value was just refused on a created type
\* whose data file is still empty.
C17_Witness ==
  /\ last.op = "create_record"
  /\ last.outcome = "EncodeError"
  /\ DatName(last.tokens[3]) \in DOMAIN files
  /\ files[DatName(last.tokens[3])] = <<>>
  /\ ops >= 2

----------------------------------------------------------------------------
(* C19: after every command, in every page of every data file, a slot's    *)
(* bitmap byte is 1 exactly when the first byte of the slot is not 0.      *)
C19_ValidityMatchesBitmap ==
  \A name \in DOMAIN files :
    \A r \in 1..Len(files[name]) :
      \A s \in Slots :
        LiveAt(files[name][r].page, s) <=> files[name][r].page.slots[s + 1][1] # 0

\* The record just inserted went into a freed slot of the first page, next
\* to another freed slot that still holds the field bytes of its record.
C19_Witness ==
  /\ last.op = "create_record"
  /\ last.outcome = "Success"
  /\ \A page \in {PageAt(FileOf(files, last.tokens[3]), 0)} :
       /\ \E s \in Slots :
            /\ LiveAt(page, s)
            /\ page.slots[s + 1] = RecordOf(read_catalog(catalog_meta), last.tokens)
            /\ \E s2 \in Slots : LiveAt(page, s2) /\ page.slots[s2 + 1] # page.slots[s + 1]
       /\ \E s \in Slots : Freed(page, s) /\ page.slots[s + 1][1] = 0

----------------------------------------------------------------------------
(* The loop of main over the lines of the input file                       *)

\* str.split(): the pieces between runs of whitespace.
RECURSIVE SplitWsFrom(_, _, _)
SplitWsFrom(s, i, cur) ==
  IF i > Len(s) THEN (IF cur = <<>> THEN <<>> ELSE <<cur>>)
  ELSE IF IsSpace(s[i])
       THEN (IF cur = <<>> THEN <<>> ELSE <<cur>>) \o SplitWsFrom(s, i + 1, <<>>)
       ELSE SplitWsFrom(s, i + 1, Append(cur, s[i]))

SplitWs(s) == SplitWsFrom(s, 1, <<>>)

\* str.lower() on the letters A to Z
Lower(s) == [i \in 1..Len(s) |-> IF s[i] \in 65..90 THEN s[i] + 32 ELSE s[i]]

Upper(s) == [i \in 1..Len(s) |-> IF s[i] \in 97..122 THEN s[i] - 32 ELSE s[i]]

Called(op, r) == [op |-> op, r |-> r]

\* No handler ran: the else branch, or tokens[1] of a one-token line.
NoHandler(outcome, lines, fs) == Called("none", Result(outcome, lines, fs, <<>>))

\* The if/elif chain of main on the tokens of a line and its first token in
\* lower case: the handler called and what it returned.
Dispatch(lines, fs, tokens, op) ==
  IF op \in {CREATE, DELETE, SEARCH} /\ Len(tokens) < 2
  THEN NoHandler("IndexError", lines, fs)
  ELSE IF op = CREATE /\ Lower(tokens[2]) = TYPE
  THEN Called("create_type", handle_create_type(lines, fs, tokens))
  ELSE IF op = CREATE /\ Lower(tokens[2]) = RECORD
  THEN Called("create_record", handle_create_record(lines, fs, tokens))
  ELSE IF op = DELETE /\ Lower(tokens[2]) = RECORD
  THEN Called("delete_record", handle_delete_record(lines, fs, tokens))
  ELSE IF op = SEARCH /\ Lower(tokens[2]) = RECORD
  THEN Called("search_record", handle_search_record(lines, fs, tokens))
  ELSE NoHandler("UnknownCommand", lines, fs)

Executed(line, tokens, d) ==
  Finished(d.op, tokens, d.r, RunLog(line, tokens, d.r.outcome))

\* One non-blank line: split, dispatched, logged.
Execute(line, tokens) ==
  Executed(line, tokens, Dispatch(catalog_meta, files, tokens, Lower(tokens[1])))

\* if not line: continue
SkipBlank ==
  /\ last' = [op |-> "blank", tokens |-> <<>>, outcome |-> "none", values |-> <<>>,
              logged |-> <<>>]
  /\ UNCHANGED <<catalog_meta, files, ops, log_len>>

\* One iteration of the loop of main on a line of the input file.
MainLine(line) ==
  /\ pending = NoInsert
  /\ pending' = pending
  /\ IF Strip(line) = <<>> THEN SkipBlank
     ELSE ops < MaxOps /\ Execute(Strip(line), SplitWs(Strip(line)))

Line(tokens) == Join(tokens, SPACE)

FOO == Txt(<<"f", "o", "o">>)

\* Lines of an input file: commands that succeed, that fail a check, with
\* blanks around and between their tokens, in upper case, with one token,
\* unknown, raising inside the handler, and blank.
MainLines ==
  { Line(CreateT),
    Line(CreateTypeCmd(<<T, KX, N1, FK, INT>>)),
    Line(CreateRecordCmd(<<T, K7>>)),
    <<32, 32>> \o Join(CreateRecordCmd(<<T, K007>>), 9) \o <<32>>,
    Line(<<Upper(CREATE), Upper(RECORD), T, K9>>),
    Line(CreateRecordCmd(<<T, KBIG>>)),
    Line(CreateRecordCmd(<<T, KX>>)),
    Line(DeleteRecordCmd(<<T, K7>>)),
    Line(SearchRecordCmd(<<T, K7>>)),
    Line(SearchRecordCmd(<<U, K7>>)),
    Line(<<FOO>>),
    Line(<<FOO, RECORD, T, K7>>),
    Line(<<CREATE, FOO, T>>),
    Line(<<CREATE>>), Line(<<DELETE>>), Line(<<SEARCH>>),
    <<>>, <<32, 9>> }

NextMain == \E line \in MainLines : MainLine(line)

SpecMain == Init /\ [][NextMain]_vars

\* The last step executed a non-blank line.
RanLine == last.op \notin {"none", "blank"} \/ last.outcome # "none"

\* The outcome of executing the tokens of a line in the current state.
OutcomeOf(tokens) == Dispatch(catalog_meta, files, tokens, Lower(tokens[1])).r.outcome

\* What a command can end in: a return of a handler, the else branch of
\* main, or an exception that the except clause of main catches.
Outcomes ==
  { "Success", "ValidationError", "DuplicateType", "SchemaNotFound", "DuplicateKey",
    "EncodeError", "CapacityExceeded", "RecordNotFound", "UnknownCommand" }
    \cup Exceptions

(* C20: the number of lines of the log is the number of non-blank lines    *)
(* executed; every non-blank line, whatever its outcome, has appended      *)
(* exactly one line, which carries the tokens of that line and says        *)
(* success exactly when the command succeeded; a blank line has appended   *)
(* none; and in the state after any outcome every further line ends in an  *)
(* outcome that main survives and logs with exactly one line.              *)
C20_OneLogLinePerCommand ==
  /\ log_len = ops
  /\ RanLine =>
       /\ Len(last.logged) = 1
       /\ SplitWs(last.logged[1].op_string) = last.tokens
       /\ last.logged[1].status = (last.outcome = "Success")
  /\ ~RanLine => last.logged = <<>>
  /\ \A line \in MainLines : Strip(line) # <<>> =>
       \A outcome \in {OutcomeOf(SplitWs(Strip(line)))} :
         /\ outcome \in Outcomes
         /\ Len(RunLog(Strip(line), SplitWs(Strip(line)), outcome)) = 1

\* A line whose handler raised was logged as a failure, after at least two
\* other lines each of which was logged.
C20_Witness ==
  /\ last.outcome = "OverflowError"
  /\ last.logged = <<LogLine(Line(CreateRecordCmd(<<T, KBIG>>)), FALSE)>>
  /\ ops >= 2
  /\ log_len = ops

----------------------------------------------------------------------------
(* C18: a create type that does not succeed was rejected by a validation   *)
(* check or by the duplicate-name check, and it leaves the catalog and     *)
(* every data file as they were: no line is appended, no file is created   *)
(* or emptied, and a search for any live key of any type gives the same    *)
(* values as before.                                                       *)
C18_FailedCreateTypeNoEffect ==
  [][ (Ran("create_type") /\ last'.outcome # "Success") =>
        /\ last'.outcome \in {"ValidationError", "DuplicateType"}
        /\ catalog_meta' = catalog_meta
        /\ files' = files
        /\ \A cat \in {read_catalog(catalog_meta)} :
           \A t \in {n \in DOMAIN cat : DatName(n) \in DOMAIN files} :
           \A key \in LiveKeys(cat[t], FileOf(files, t)) :
             /\ Search(catalog_meta', files', t, key).outcome = "Success"
             /\ Search(catalog_meta', files', t, key).values
                  = Search(catalog_meta, files, t, key).values
    ]_vars

\* A create type naming an existing type was just refused while that type's
\* data file holds a live record.
C18_Witness ==
  /\ last.op = "create_type"
  /\ last.outcome = "DuplicateType"
  /\ DatName(last.tokens[3]) \in DOMAIN files
  /\ LiveKeys(read_catalog(catalog_meta)[last.tokens[3]], FileOf(files, last.tokens[3])) # {}
  /\ ops >= 2

====
